---- MODULE Spec2Model ----
(***************************************************************************)
(* A model of vqtorch.nn.VectorQuant (src/vqtorch/nn/vq.py): the vector    *)
(* quantization layer trained by the straight-through approximation.       *)
(*                                                                         *)
(* Tensors are nested sequences of integers.  The prepared input has the   *)
(* shape positions x groups x feature_size; the codebook is a sequence of  *)
(* num_codes rows.  Indices q are 0-based, as in the program.              *)
(*                                                                         *)
(* Three specifications share the module:                                  *)
(*   Spec      the life of one engine: construction, forward passes,       *)
(*             accessors, and the external writers of the codebook;        *)
(*   SpecFn    the pure functions straight_through_approximation and       *)
(*             compute_loss on drawn inputs, with floating-point rounding  *)
(*             and derivatives;                                            *)
(*   SpecConc  two forward calls on one engine, step by step.              *)
(***************************************************************************)
EXTENDS Integers, Sequences, FiniteSets

VARIABLES
    phase,      \* "new" | "failed" | "ready": outcome of __init__
    error,      \* the exception __init__ raised, or NoError
    cfg,        \* self.beta, self.nu, self.affine_lr, replace_freq
    enabled,    \* self.enabled (owned by the base layer)
    codebook,   \* self.codebook.weight
    affine,     \* self.affine_transform's parameters, or Absent
    last,       \* what the last call returned
    fn,         \* SpecFn: the inputs and the result of a pure function
    serial,     \* SpecConc: whether the callers serialise forward calls
    pc,         \* SpecConc: each call's position in quantize
    tin,        \* SpecConc: each call's input
    tpre,       \* SpecConc: AffineParams when the call entered quantize
    tseen,      \* SpecConc: the statistics the call's update has read
    tres        \* SpecConc: what the call's search and gather used

vars == <<phase, error, cfg, enabled, codebook, affine, last, fn,
          serial, pc, tin, tpre, tseen, tres>>

engineVars == <<phase, error, cfg, enabled, codebook, affine, last>>
concVars == <<serial, pc, tin, tpre, tseen, tres>>

----------------------------------------------------------------------------
(* Bounds *)

\* feature_size and num_codes given to the constructor
FeatureSize == 1
NumCodes == 2
\* self.groups of the base layer, and the positions of one input batch
Groups == 2
\* mantissa bits of the floating-point format of the tensors
Precision == 3

\* values of codebook entries and of input elements in Spec and SpecConc
Vals == {0, 3}

\* beta as a fraction <<numerator, denominator>>: -0.1, 0, 0.5, 1, 1.5
Betas == {<<-1, 10>>, <<0, 1>>, <<1, 2>>, <<1, 1>>, <<3, 2>>}
\* sync_nu: of the engines of Spec, and of the pure function in SpecFn
NuVals == {0, 2}
FnNuVals == {0, 3}
\* affine_lr and replace_freq: 0 disables
Switches == {0, 1}

NoError == [kind |-> "none"]
Absent == [kind |-> "absent"]
NoCfg == [kind |-> "none"]
Nothing == [op |-> "none"]

----------------------------------------------------------------------------
(* Evaluation: Let binds the value of an expression once, as a statement   *)
(* of the program binds a local variable.                                  *)

Let(v, F(_)) == CHOOSE r \in {F(x) : x \in {v}} : TRUE
Let2(v, w, F(_, _)) == CHOOSE r \in {F(x, y) : x \in {v}, y \in {w}} : TRUE

----------------------------------------------------------------------------
(* Sequences and sums *)

RECURSIVE SumSeq(_)
SumSeq(s0) ==
    Let(s0, LAMBDA s : IF s = <<>> THEN 0 ELSE Head(s) + SumSeq(Tail(s)))

RECURSIVE Concat(_)
Concat(ss0) ==
    Let(ss0, LAMBDA ss : IF ss = <<>> THEN <<>> ELSE Head(ss) \o Concat(Tail(ss)))

Abs(x) == IF x < 0 THEN -x ELSE x

RECURSIVE Pow2(_)
Pow2(n) == IF n = 0 THEN 1 ELSE 2 * Pow2(n - 1)

----------------------------------------------------------------------------
(* Floating-point arithmetic of the tensors: a binary format with          *)
(* Precision mantissa bits, round to nearest, ties to even, on integer     *)
(* values (no overflow or underflow inside the bounds).                    *)

RECURSIVE Ulp(_, _)
Ulp(m, u) == IF m < Pow2(Precision) * u THEN u ELSE Ulp(m, 2 * u)

Round(x0) ==
    Let(x0, LAMBDA x :
    Let(Ulp(Abs(x), 1), LAMBDA u :
        LET m == Abs(x)
            k == m \div u
            r == m % u
            up == (2 * r > u) \/ (2 * r = u /\ k % 2 = 1)
            n == (IF up THEN k + 1 ELSE k) * u
        IN  IF x < 0 THEN -n ELSE n))

Representable(x) == Round(x) = x

\* the representable values the pure functions are tried on
FloatVals == {x \in -Pow2(Precision + 1)..Pow2(Precision + 1) : Representable(x)}

----------------------------------------------------------------------------
(* Tensor elements under automatic differentiation: the value v and the    *)
(* partial derivatives gz, gq of the element with respect to the elements  *)
(* of the leaves z and z_q at the same index.                              *)

LeafZ(x) == [v |-> x, gz |-> 1, gq |-> 0]
LeafQ(x) == [v |-> x, gz |-> 0, gq |-> 1]

\* Tensor.detach(): the same value, cut from the graph
detach(x0) == Let(x0, LAMBDA x : [v |-> x.v, gz |-> 0, gq |-> 0])

add(x0, y0) ==
    Let2(x0, y0, LAMBDA x, y :
        [v |-> Round(x.v + y.v), gz |-> x.gz + y.gz, gq |-> x.gq + y.gq])
sub(x0, y0) ==
    Let2(x0, y0, LAMBDA x, y :
        [v |-> Round(x.v - y.v), gz |-> x.gz - y.gz, gq |-> x.gq - y.gq])
\* scalar * tensor element
scale(c, x0) ==
    Let(x0, LAMBDA x : [v |-> Round(c * x.v), gz |-> c * x.gz, gq |-> c * x.gq])
mul(x0, y0) ==
    Let2(x0, y0, LAMBDA x, y :
        [v |-> Round(x.v * y.v),
         gz |-> x.gz * y.v + x.v * y.gz,
         gq |-> x.gq * y.v + x.v * y.gq])

\* elementwise maps over positions x groups x features
Map1(f(_), a0) ==
    Let(a0, LAMBDA a :
        [p \in DOMAIN a |->
            [g \in DOMAIN a[p] |-> [i \in DOMAIN a[p][g] |-> f(a[p][g][i])]]])
Map2(f(_, _), a0, b0) ==
    Let2(a0, b0, LAMBDA a, b :
        [p \in DOMAIN a |->
            [g \in DOMAIN a[p] |->
                [i \in DOMAIN a[p][g] |-> f(a[p][g][i], b[p][g][i])]]])

ValueOf(x) == x.v
Values(t) == Map1(ValueOf, t)

----------------------------------------------------------------------------
(* straight_through_approximation *)

st_elem_nosub(nu, z, z_q) ==
    IF nu > 0
    THEN add(add(add(z, detach(z_q)), scale(nu, z_q)), detach(scale(-nu, z_q)))
    ELSE add(z, detach(z_q))

st_elem_nodetach(nu, z, z_q) ==
    IF nu > 0
    THEN add(add(add(z, sub(z_q, z)), scale(nu, z_q)), detach(scale(-nu, z_q)))
    ELSE add(z, sub(z_q, z))

\* one element of z + (z_q - z).detach() [+ nu * z_q + (-nu * z_q).detach()]
st_elem(nu, z, z_q) ==
    IF nu > 0
    THEN add(add(add(z, detach(sub(z_q, z))), scale(nu, z_q)), detach(scale(-nu, z_q)))
    ELSE add(z, detach(sub(z_q, z)))

straight_through_approximation(nu, z, z_q) ==
    Map2(LAMBDA a, b : st_elem(nu, a, b), z, z_q)

----------------------------------------------------------------------------
(* compute_loss *)

RECURSIVE FSum(_)
FSum(s0) ==
    Let(s0, LAMBDA s :
        IF s = <<>> THEN 0 ELSE Round(FSum(SubSeq(s, 1, Len(s) - 1)) + s[Len(s)]))

DetachV(a0) == Let(a0, LAMBDA a : [i \in DOMAIN a |-> detach(a[i])])

\* the 'euclidean' loss of one vector pair: the squared distance, with its
\* partial derivatives with respect to every element of the two leaves
loss_fn(a0, b0) ==
    Let2(a0, b0, LAMBDA a, b :
    Let([i \in DOMAIN a |-> Let(sub(a[i], b[i]), LAMBDA e : mul(e, e))], LAMBDA sq :
        [v |-> FSum([i \in DOMAIN a |-> sq[i].v]),
         gz |-> [i \in DOMAIN a |-> sq[i].gz],
         gq |-> [i \in DOMAIN a |-> sq[i].gq]]))

\* (1 - beta) * A + beta * B for beta = n / den, as a fraction over den
Weighted(beta, A0, B0) ==
    Let2(A0, B0, LAMBDA A, B :
        LET n == beta[1]
            den == beta[2]
        IN  [num |-> (den - n) * A.v + n * B.v,
             den |-> den,
             gz |-> [i \in DOMAIN A.gz |-> (den - n) * A.gz[i] + n * B.gz[i]],
             gq |-> [i \in DOMAIN A.gq |-> (den - n) * A.gq[i] + n * B.gq[i]]])

\* loss_fn(z_e, z_q.detach()) and loss_fn(z_e.detach(), z_q)
commitment_term(z_e, z_q) == loss_fn(z_e, DetachV(z_q))
codebook_term(z_e, z_q) == loss_fn(DetachV(z_e), z_q)

compute_loss_vec_swapped(beta, z_e, z_q) ==
    Weighted(beta, loss_fn(DetachV(z_e), z_q), loss_fn(z_e, DetachV(z_q)))

\* one vector of (1 - beta) * loss_fn(z_e, z_q.detach())
\*                 + beta * loss_fn(z_e.detach(), z_q)
compute_loss_vec(beta, z_e, z_q) ==
    Weighted(beta, commitment_term(z_e, z_q), codebook_term(z_e, z_q))

compute_loss(beta, z_e0, z_q0) ==
    Let2(z_e0, z_q0, LAMBDA z_e, z_q :
        [p \in DOMAIN z_e |->
            [g \in DOMAIN z_e[p] |-> compute_loss_vec(beta, z_e[p][g], z_q[p][g])]])

\* Tensor.mean() of the loss: the fraction <<sum of numerators, den * count>>
MeanLoss(L) ==
    Let(Concat(L), LAMBDA flat :
        <<SumSeq([j \in DOMAIN flat |-> flat[j].num]),
          (IF flat = <<>> THEN 1 ELSE flat[1].den) * Len(flat)>>)

----------------------------------------------------------------------------
(* The collaborators of the engine outside vq.py, as the specification     *)
(* describes them.                                                         *)

\* _VQBaseLayer.prepare_inputs: every position's trailing G*F values are
\* cut into G group vectors of F values
prepare_inputs(z0, groups) ==
    Let(z0, LAMBDA z :
        [p \in DOMAIN z |->
            [g \in 1..groups |->
                [i \in 1..(Len(z[p]) \div groups) |->
                    z[p][(g - 1) * (Len(z[p]) \div groups) + i]]]])

\* _VQBaseLayer.to_original_format: the groups of a position joined again
to_original_format(x0) == Let(x0, LAMBDA x : [p \in DOMAIN x |-> Concat(x[p])])

\* squared Euclidean distance of two vectors
SqDist(a0, b0) ==
    Let2(a0, b0, LAMBDA a, b :
        FSum([i \in DOMAIN a |->
                Let(Round(a[i] - b[i]), LAMBDA e : Round(e * e))]))

\* the nearest code of one vector: the least distance, the lowest index
\* among equals, the index 0-based
Nearest(v, cb) ==
    Let([k \in DOMAIN cb |-> SqDist(v, cb[k])], LAMBDA ds :
    Let(CHOOSE k \in DOMAIN ds :
            \A j \in DOMAIN ds : ds[k] < ds[j] \/ (ds[k] = ds[j] /\ k <= j),
        LAMBDA best : [d |-> ds[best], q |-> best - 1]))

\* dist_fn of get_dist_fns('euclidean'), topk = 1: per-vector d and q
dist_fn(tensor0, cb0) ==
    Let2(tensor0, cb0, LAMBDA tensor, cb :
    Let([j \in DOMAIN tensor |-> Nearest(tensor[j], cb)], LAMBDA near :
        [d |-> [j \in DOMAIN near |-> near[j].d],
         q |-> [j \in DOMAIN near |-> near[j].q]]))

Mean(s0) == Let(s0, LAMBDA s : IF s = <<>> THEN 0 ELSE SumSeq(s) \div Len(s))

\* AffineTransform() as constructed: no batch folded in yet
NewAffine == [kind |-> "affine", mean |-> 0, initialized |-> FALSE]

\* AffineTransform.update_running_statistics: one batch folded into the
\* moving average of the input mean (momentum 1/2; the first batch sets it)
update_running_statistics(aff, z_flat, cb) ==
    Let(Mean(Concat(z_flat)), LAMBDA m :
        [kind |-> "affine",
         mean |-> IF aff.initialized THEN (aff.mean + m) \div 2 ELSE m,
         initialized |-> TRUE])

\* AffineTransform.forward: the codebook recentred on the tracked input mean
affine_transform(aff, cb0) ==
    Let(cb0, LAMBDA cb :
        IF ~aff.initialized THEN cb
        ELSE Let(Mean(Concat(cb)), LAMBDA c :
                [k \in DOMAIN cb |->
                    [i \in DOMAIN cb[k] |-> Round(Round(cb[k][i] - c) + aff.mean)]]))

\* AffineTransform.get_affine_params
get_affine_params(aff) == [mean |-> aff.mean, initialized |-> aff.initialized]

----------------------------------------------------------------------------
(* VectorQuant *)

BetaInvalid_strict(beta) == beta[1] <= 0 \/ beta[1] >= beta[2]

\* beta < 0.0 or beta > 1.0, for beta = n / den with den > 0
BetaInvalid(beta) == beta[1] < 0 \/ beta[1] > beta[2]

\* __init__: the engine built, or the exception raised
VectorQuant(beta, sync_nu, affine_lr, replace_freq, weight) ==
    IF BetaInvalid(beta)
    THEN [phase |-> "failed",
          error |-> [kind |-> "ValueError", got |-> beta],
          cfg |-> NoCfg, codebook |-> <<>>, affine |-> Absent]
    ELSE [phase |-> "ready",
          error |-> NoError,
          cfg |-> [beta |-> beta, nu |-> sync_nu, affine_lr |-> affine_lr,
                   replace_freq |-> replace_freq],
          codebook |-> weight,
          affine |-> IF affine_lr > 0 THEN NewAffine ELSE Absent]

\* F.embedding(q, codebook); an index outside the codebook raises
InRange(q, cb) ==
    \A p \in DOMAIN q : \A g \in DOMAIN q[p] : q[p][g] + 1 \in DOMAIN cb
embedding(q, cb) ==
    [p \in DOMAIN q |->
        [g \in DOMAIN q[p] |->
            IF q[p][g] + 1 \in DOMAIN cb THEN cb[q[p][g] + 1] ELSE <<>>]]

\* s.view(z_shape): a flat sequence in the shape positions x groups of z
View(s, z) ==
    [p \in DOMAIN z |-> [g \in DOMAIN z[p] |-> s[(p - 1) * Len(z[1]) + g]]]

\* what quantize returns, with the AffineParams it leaves and the codebook
\* it handed to dist_fn
QuantizeResult(z_q, d, q, aff, cb) ==
    [z_q |-> z_q, d |-> d, q |-> q, affine |-> aff, searched |-> cb,
     raised |-> IF InRange(q, cb) THEN "none" ELSE "IndexError"]

quantize_update_dropped(cb0, z, seen) == seen

\* quantize, line 97: the statistics seen, with the batch z folded in
quantize_update(cb0, z, seen) ==
    update_running_statistics(seen, Concat(z), cb0)

quantize_search_swapped_dq(cb00, z0, aff1) ==
    Let2(cb00, z0, LAMBDA cb0, z :
    Let(IF aff1 # Absent THEN affine_transform(aff1, cb0) ELSE cb0, LAMBDA cb :
    Let(dist_fn(Concat(z), cb), LAMBDA dist_out :
    Let2(View(dist_out.q, z), View(dist_out.d, z), LAMBDA d, q :
        QuantizeResult(embedding(q, cb), d, q, aff1, cb)))))

quantize_search_raw_gather(cb00, z0, aff1) ==
    Let2(cb00, z0, LAMBDA cb0, z :
    Let(IF aff1 # Absent THEN affine_transform(aff1, cb0) ELSE cb0, LAMBDA cb :
    Let(dist_fn(Concat(z), cb), LAMBDA dist_out :
    Let2(View(dist_out.d, z), View(dist_out.q, z), LAMBDA d, q :
        QuantizeResult(embedding(q, cb0), d, q, aff1, cb)))))

\* quantize, lines 98-113: the codebook calibrated with the AffineParams
\* aff1 now in the engine, the search in it, the gather from it
quantize_search(cb00, z0, aff1) ==
    Let2(cb00, z0, LAMBDA cb0, z :
    Let(IF aff1 # Absent THEN affine_transform(aff1, cb0) ELSE cb0, LAMBDA cb :
    Let(dist_fn(Concat(z), cb), LAMBDA dist_out :
    Let2(View(dist_out.d, z), View(dist_out.q, z), LAMBDA d, q :
        QuantizeResult(embedding(q, cb), d, q, aff1, cb)))))

quantize_stale(cb0, z, aff) ==
    Let(quantize_search(cb0, z, aff), LAMBDA r :
        [r EXCEPT !.affine = IF aff # Absent THEN quantize_update(cb0, z, aff) ELSE aff])

\* quantize(codebook, z) with the AffineParams aff at entry (Absent when the
\* engine has no affine_transform)
quantize(cb0, z, aff) ==
    Let(IF aff # Absent THEN quantize_update(cb0, z, aff) ELSE aff, LAMBDA aff1 :
        quantize_search(cb0, z, aff1))

get_codebook_inplace(weight, aff) ==
    Let(IF aff # Absent THEN affine_transform(aff, weight) ELSE weight, LAMBDA cb :
        [ret |-> cb, weight |-> cb, affine |-> aff])

\* get_codebook(): the value returned, and the state it leaves
get_codebook(weight, aff) ==
    [ret |-> IF aff # Absent THEN affine_transform(aff, weight) ELSE weight,
     weight |-> weight,
     affine |-> aff]

\* get_codebook_affine_params()
get_codebook_affine_params(aff) ==
    IF aff # Absent THEN get_affine_params(aff) ELSE "None"

EmptyMisc == <<>>

\* forward, lines 137-138: quantization disabled
forward_disabled(z, weight, aff) ==
    [ret |-> to_original_format(z), misc |-> EmptyMisc,
     affine |-> aff, weight |-> weight, searched |-> <<>>,
     raised |-> "none",
     calls |-> <<"prepare_inputs", "to_original_format">>]

\* forward, lines 144-161: quantize, the diagnostics, the output
forward_enabled(z, c, weight, aff) ==
    Let(quantize(weight, z, aff), LAMBDA r :
        IF r.raised # "none"
        THEN [ret |-> <<>>, misc |-> EmptyMisc, affine |-> r.affine,
              weight |-> weight, searched |-> r.searched,
              raised |-> r.raised,
              calls |-> <<"prepare_inputs", "quantize">>]
        ELSE Let2(Map1(LeafZ, z), Map1(LeafQ, r.z_q), LAMBDA zd, zqd :
             Let2(MeanLoss(compute_loss(c.beta, zd, zqd)),
                  straight_through_approximation(c.nu, zd, zqd), LAMBDA loss, st :
                 [ret |-> to_original_format(Values(st)),
                  misc |-> [z |-> z, z_q |-> r.z_q, d |-> r.d, q |-> r.q,
                            loss |-> loss, perplexity |-> "None"],
                  affine |-> r.affine, weight |-> weight,
                  searched |-> r.searched, raised |-> "none",
                  calls |-> <<"prepare_inputs", "quantize", "compute_loss",
                              "straight_through_approximation",
                              "to_original_format">>])))

forward_ignores_enabled(z_in, c, on, weight, aff) ==
    Let(prepare_inputs(z_in, Groups), LAMBDA z : forward_enabled(z, c, weight, aff))

\* forward(z) of the engine with configuration c, flag on, codebook weight
\* and AffineParams aff: the pair returned, the state left, the methods called
forward(z_in, c, on, weight, aff) ==
    Let(prepare_inputs(z_in, Groups), LAMBDA z :
        IF ~on
        THEN forward_disabled(z, weight, aff)
        ELSE forward_enabled(z, c, weight, aff))

----------------------------------------------------------------------------
(* SpecFn: the pure functions on drawn inputs *)

\* a tensor of one position filled from one drawn value
FnTensor(a) ==
    [p \in 1..1 |->
        [g \in 1..Groups |->
            [i \in 1..FeatureSize |-> IF (g + i) % 2 = 0 THEN a ELSE -a]]]

Idle == [t \in {1, 2} |-> "idle"]
NoneOf == [t \in {1, 2} |-> Nothing]

InitFn ==
    /\ phase = "new" /\ error = NoError /\ cfg = NoCfg /\ enabled = TRUE
    /\ codebook = <<>> /\ affine = Absent /\ last = Nothing
    /\ serial = TRUE /\ pc = Idle /\ tin = NoneOf /\ tpre = NoneOf
    /\ tseen = NoneOf /\ tres = NoneOf
    /\ \E a \in FloatVals, b \in FloatVals, nu \in FnNuVals, beta \in Betas :
          fn = [op |-> "input", nu |-> nu, beta |-> beta,
                z |-> FnTensor(a), z_q |-> FnTensor(b)]

FnStraightThrough ==
    /\ fn.op = "input"
    /\ fn' = [op |-> "straight_through_approximation", nu |-> fn.nu,
              beta |-> fn.beta, z |-> fn.z, z_q |-> fn.z_q,
              out |-> straight_through_approximation(
                          fn.nu, Map1(LeafZ, fn.z), Map1(LeafQ, fn.z_q))]
    /\ UNCHANGED <<engineVars, concVars>>

FnComputeLoss ==
    /\ fn.op = "input"
    /\ fn' = [op |-> "compute_loss", nu |-> fn.nu,
              beta |-> fn.beta, z |-> fn.z, z_q |-> fn.z_q,
              out |-> compute_loss(
                          fn.beta, Map1(LeafZ, fn.z), Map1(LeafQ, fn.z_q))]
    /\ UNCHANGED <<engineVars, concVars>>

NextFn == FnStraightThrough \/ FnComputeLoss

SpecFn == InitFn /\ [][NextFn]_vars

----------------------------------------------------------------------------
(* Spec: one engine *)

\* the vectors the codebook rows and the input groups are drawn from
Row(a) == [i \in 1..FeatureSize |-> IF i % 2 = 1 THEN a ELSE -a]
Rows == {Row(a) : a \in Vals}
Codebooks == [1..NumCodes -> Rows]
\* inputs of one position: Groups vectors side by side
Inputs == {<<Concat(gs)>> : gs \in [1..Groups -> Rows]}

Init ==
    /\ phase = "new" /\ error = NoError /\ cfg = NoCfg /\ enabled = TRUE
    /\ codebook = <<>> /\ affine = Absent /\ last = Nothing
    /\ fn = Nothing
    /\ serial = TRUE /\ pc = Idle /\ tin = NoneOf /\ tpre = NoneOf
    /\ tseen = NoneOf /\ tres = NoneOf

Construct ==
    /\ phase = "new"
    /\ \E beta \in Betas, nu \in NuVals, alr \in Switches, rf \in Switches,
          w \in Codebooks :
          LET r == VectorQuant(beta, nu, alr, rf, w)
          IN  /\ phase' = r.phase
              /\ error' = r.error
              /\ cfg' = r.cfg
              /\ codebook' = r.codebook
              /\ affine' = r.affine
              /\ last' = [op |-> "__init__", beta |-> beta]
    /\ UNCHANGED <<enabled, fn, concVars>>

Forward ==
    /\ phase = "ready"
    /\ \E z \in Inputs :
          \E r \in {forward(z, cfg, enabled, codebook, affine)} :
              /\ codebook' = r.weight
              /\ affine' = r.affine
              /\ last' = [op |-> "forward", input |-> z, ret |-> r.ret,
                          misc |-> r.misc, calls |-> r.calls,
                          raised |-> r.raised, searched |-> r.searched,
                          pre |-> [enabled |-> enabled, codebook |-> codebook]]
    /\ UNCHANGED <<phase, error, cfg, enabled, fn, concVars>>

GetCodebook ==
    /\ phase = "ready"
    /\ LET r == get_codebook(codebook, affine)
       IN  /\ codebook' = r.weight
           /\ affine' = r.affine
           /\ last' = [op |-> "get_codebook", ret |-> r.ret,
                       pre |-> [affine |-> affine, codebook |-> codebook]]
    /\ UNCHANGED <<phase, error, cfg, enabled, fn, concVars>>

GetCodebookAffineParams ==
    /\ phase = "ready"
    /\ last' = [op |-> "get_codebook_affine_params",
                ret |-> get_codebook_affine_params(affine)]
    /\ UNCHANGED <<phase, error, cfg, enabled, codebook, affine, fn, concVars>>

\* the optimizer, outside the engine, rewrites a row of the codebook
OptimizerStep ==
    /\ phase = "ready"
    /\ \E k \in 1..NumCodes, v \in Rows :
          /\ codebook[k] # v
          /\ codebook' = [codebook EXCEPT ![k] = v]
    /\ last' = [op |-> "optimizer_step"]
    /\ UNCHANGED <<phase, error, cfg, enabled, affine, fn, concVars>>

\* the replacement policy, attached when replace_freq > 0, swaps a row for
\* an input vector
Replace ==
    /\ phase = "ready"
    /\ cfg.replace_freq > 0
    /\ \E k \in 1..NumCodes, v \in Rows :
          /\ codebook[k] # v
          /\ codebook' = [codebook EXCEPT ![k] = v]
    /\ last' = [op |-> "lru_replacement"]
    /\ UNCHANGED <<phase, error, cfg, enabled, affine, fn, concVars>>

\* the base layer's flag, set from outside
SetEnabled ==
    /\ phase = "ready"
    /\ enabled' = ~enabled
    /\ last' = [op |-> "set_enabled"]
    /\ UNCHANGED <<phase, error, cfg, codebook, affine, fn, concVars>>

Next ==
    \/ Construct
    \/ Forward
    \/ GetCodebook
    \/ GetCodebookAffineParams
    \/ OptimizerStep
    \/ Replace
    \/ SetEnabled

Spec == Init /\ [][Next]_vars

----------------------------------------------------------------------------
(* SpecConc: two forward calls on one engine with calibration.  A call     *)
(* passes through quantize in three steps: update_running_statistics reads *)
(* the statistics, then writes them with its batch folded in; then the     *)
(* codebook is calibrated with the statistics found in the engine, and     *)
(* searched.  With serial, a call starts only when no other is under way.  *)

Threads == {1, 2}
ConcCfg == [beta |-> <<1, 2>>, nu |-> 0, affine_lr |-> 1, replace_freq |-> 0]
StartAffines ==
    {NewAffine} \cup {[kind |-> "affine", mean |-> m, initialized |-> TRUE] : m \in Vals}

InitConc ==
    /\ phase = "ready" /\ error = NoError /\ cfg = ConcCfg /\ enabled = TRUE
    /\ codebook \in Codebooks
    /\ affine \in StartAffines
    /\ last = [op |-> "concurrent", affine0 |-> affine]
    /\ fn = Nothing
    /\ serial \in BOOLEAN
    /\ pc = Idle /\ tin = NoneOf /\ tpre = NoneOf
    /\ tseen = NoneOf /\ tres = NoneOf

\* forward is called: prepare_inputs, then quantize is entered
CallForward(t) ==
    /\ pc[t] = "idle"
    /\ serial => \A u \in Threads \ {t} : pc[u] \in {"idle", "done"}
    /\ \E z \in Inputs : tin' = [tin EXCEPT ![t] = prepare_inputs(z, Groups)]
    /\ tpre' = [tpre EXCEPT ![t] = affine]
    /\ pc' = [pc EXCEPT ![t] = "read"]
    /\ UNCHANGED <<engineVars, fn, serial, tseen, tres>>

\* update_running_statistics reads the running statistics
UpdateRead(t) ==
    /\ pc[t] = "read"
    /\ tseen' = [tseen EXCEPT ![t] = affine]
    /\ pc' = [pc EXCEPT ![t] = "write"]
    /\ UNCHANGED <<engineVars, fn, serial, tin, tpre, tres>>

\* update_running_statistics writes them
UpdateWrite(t) ==
    /\ pc[t] = "write"
    /\ affine' = quantize_update(codebook, tin[t], tseen[t])
    /\ pc' = [pc EXCEPT ![t] = "search"]
    /\ UNCHANGED <<phase, error, cfg, enabled, codebook, last, fn, serial,
                   tin, tpre, tseen, tres>>

\* the calibration, the search and the gather; the call returns
SearchGather(t) ==
    /\ pc[t] = "search"
    /\ \E r \in {quantize_search(codebook, tin[t], affine)} :
          tres' = [tres EXCEPT ![t] = [op |-> "quantize", q |-> r.q, z_q |-> r.z_q,
                                      affine |-> r.affine, searched |-> r.searched]]
    /\ pc' = [pc EXCEPT ![t] = "done"]
    /\ UNCHANGED <<engineVars, fn, serial, tin, tpre, tseen>>

NextConc ==
    \E t \in Threads :
        \/ CallForward(t)
        \/ UpdateRead(t)
        \/ UpdateWrite(t)
        \/ SearchGather(t)

SpecConc == InitConc /\ [][NextConc]_vars

----------------------------------------------------------------------------
(* Properties of the engine, under Spec *)

IsForward == last.op = "forward"
IsEnabledForward == IsForward /\ last.pre.enabled
Range(f) == {f[x] : x \in DOMAIN f}

\* C1: a beta below 0 or above 1 makes the constructor raise a ValueError
\* naming the value, and no engine is built; every beta in [0, 1], the
\* endpoints included, builds an engine that stores that beta unchanged.
C1_BetaValidatedAtConstruction ==
    /\ last.op = "__init__" =>
          LET b == last.beta
              outside == b[1] < 0 \/ b[1] > b[2]
          IN  /\ outside =>
                    /\ phase = "failed"
                    /\ error = [kind |-> "ValueError", got |-> b]
                    /\ cfg = NoCfg /\ codebook = <<>> /\ affine = Absent
              /\ ~outside =>
                    /\ phase = "ready" /\ error = NoError
                    /\ cfg.beta = b
    /\ phase = "ready" => (0 <= cfg.beta[1] /\ cfg.beta[1] <= cfg.beta[2])

C1_Witness_RejectedBeta ==
    /\ last.op = "__init__" /\ last.beta = <<-1, 10>> /\ phase = "failed"

\* C2: with the enabled flag off, forward returns the input in its original
\* format, element for element, with an empty diagnostics mapping, and does
\* not call quantize.
C2_DisabledIsPassThrough ==
    (IsForward /\ ~last.pre.enabled) =>
        /\ last.ret = last.input
        /\ DOMAIN last.misc = {}
        /\ "quantize" \notin Range(last.calls)
        /\ last.raised = "none"

C2_Witness_DisabledForward ==
    /\ IsForward /\ ~last.pre.enabled /\ affine # Absent
    /\ \E p \in DOMAIN last.input : \E i \in DOMAIN last.input[p] :
          last.input[p][i] \notin Range(Concat(codebook))

\* C3: every index q in the diagnostics of an enabled forward pass is at
\* least 0 and below num_codes, whatever forward passes, optimizer steps
\* and replacements came before.
C3_IndexInRange ==
    IsEnabledForward =>
        /\ last.raised = "none"
        /\ Len(codebook) = NumCodes
        /\ \A p \in DOMAIN last.misc.q : \A g \in DOMAIN last.misc.q[p] :
              0 <= last.misc.q[p][g] /\ last.misc.q[p][g] < NumCodes

C3_Witness_LastRowAssigned ==
    /\ IsEnabledForward
    /\ \E p \in DOMAIN last.misc.q : \E g \in DOMAIN last.misc.q[p] :
          /\ last.misc.q[p][g] = NumCodes - 1
          /\ last.misc.d[p][g] > 0

\* C4: in an enabled forward pass the diagnostics z_q of every vector is
\* the row at that vector's index q of the codebook the search ran on: the
\* stored codebook without calibration, the calibrated codebook with it.
C4_ZqIsGatheredRow ==
    IsEnabledForward =>
        /\ last.searched =
              (IF affine = Absent THEN codebook ELSE affine_transform(affine, codebook))
        /\ \A p \in DOMAIN last.misc.z_q : \A g \in DOMAIN last.misc.z_q[p] :
              last.misc.z_q[p][g] = last.searched[last.misc.q[p][g] + 1]

C4_Witness_CalibratedGather ==
    /\ IsEnabledForward /\ affine # Absent
    /\ \E p \in DOMAIN last.misc.z_q : \E g \in DOMAIN last.misc.z_q[p] :
          last.misc.z_q[p][g] # codebook[last.misc.q[p][g] + 1]

\* C8: get_codebook returns a num_codes x feature_size matrix with or
\* without calibration, leaves the stored codebook and the AffineParams as
\* they were, and without calibration returns the stored weights.
C8_GetCodebookReadOnly ==
    last.op = "get_codebook" =>
        /\ codebook = last.pre.codebook
        /\ affine = last.pre.affine
        /\ Len(last.ret) = NumCodes
        /\ \A k \in DOMAIN last.ret : Len(last.ret[k]) = FeatureSize
        /\ affine = Absent => last.ret = codebook

C8_Witness_CalibratedRead ==
    /\ last.op = "get_codebook" /\ affine # Absent /\ last.ret # codebook

----------------------------------------------------------------------------
(* Properties of the pure functions, under SpecFn *)

IsST == fn.op = "straight_through_approximation"
IsLoss == fn.op = "compute_loss"
Elements(t) == Concat(Concat(t))

\* the subtraction z_q - z and, with nu > 0, the sum z_q + nu * z_q of one
\* element are computed without rounding
ExactIntermediates(nu, a, b) ==
    /\ Representable(b - a)
    /\ nu > 0 => (Representable(nu * b) /\ Representable(b + nu * b))

\* C5, as claimed: the value straight_through_approximation returns is z_q,
\* element for element, for sync_nu = 0 and for sync_nu > 0.
C5_Claimed_ExactlyZq ==
    IsST => Values(fn.out) = fn.z_q

\* C5, as amended: the value returned is z_q up to floating-point rounding.
\* It is z_q itself wherever the intermediate results are computed without
\* rounding, and everywhere it is within 2^(1 - Precision) times
\* |z| + (nu + 4) * |z_q| of z_q.
C5_ZqUpToRounding ==
    IsST =>
        \A j \in DOMAIN Elements(fn.z) :
            LET a == Elements(fn.z)[j]
                b == Elements(fn.z_q)[j]
                o == Elements(fn.out)[j].v
            IN  /\ ExactIntermediates(fn.nu, a, b) => o = b
                /\ Pow2(Precision) * Abs(o - b) <= 2 * (Abs(a) + (fn.nu + 4) * Abs(b))

C5_Witness_ExactWithNu ==
    /\ IsST /\ fn.nu > 0 /\ fn.z # fn.z_q
    /\ \A j \in DOMAIN Elements(fn.z) :
          /\ ExactIntermediates(fn.nu, Elements(fn.z)[j], Elements(fn.z_q)[j])
          /\ Elements(fn.z_q)[j] # 0
    /\ Values(fn.out) = fn.z_q

\* C6: the derivative of the output of straight_through_approximation with
\* respect to z is 1 for every sync_nu, and with respect to z_q it is 0 for
\* sync_nu = 0 and nu for sync_nu > 0.
C6_StraightThroughDerivatives ==
    IsST =>
        \A j \in DOMAIN Elements(fn.out) :
            /\ Elements(fn.out)[j].gz = 1
            /\ Elements(fn.out)[j].gq = (IF fn.nu > 0 THEN fn.nu ELSE 0)

C6_Witness_PartialGradient ==
    /\ IsST /\ fn.nu > 0 /\ fn.z # fn.z_q
    /\ \E j \in DOMAIN Elements(fn.out) : Elements(fn.out)[j].gq = fn.nu

----------------------------------------------------------------------------
(* Properties of concurrent forward calls, under SpecConc *)

\* what one forward call alone makes of the AffineParams aff and the input
\* z: the statistics it leaves and the codebook it searches
Alone(aff, z) ==
    Let(update_running_statistics(aff, Concat(z), codebook), LAMBDA a1 :
        [affine |-> a1, searched |-> affine_transform(a1, codebook)])

Seen(t) == [affine |-> tres[t].affine, searched |-> tres[t].searched]

\* the calls that have returned are as if run one after the other
OneAfterTheOther ==
    /\ \A t \in Threads :
          (pc[t] = "done" /\ \A u \in Threads \ {t} : pc[u] = "idle") =>
              /\ Seen(t) = Alone(last.affine0, tin[t])
              /\ affine = Alone(last.affine0, tin[t]).affine
    /\ (\A t \in Threads : pc[t] = "done") =>
          \E t \in Threads : \E u \in Threads \ {t} :
              /\ Seen(t) = Alone(last.affine0, tin[t])
              /\ Seen(u) = Alone(Seen(t).affine, tin[u])
              /\ affine = Seen(u).affine

====
